---- MODULE Spec2Model ----
(***************************************************************************)
(* Model of two view components:                                           *)
(*   - TableView (eventsV2/table/tableView.tsx): column add / update /     *)
(*     delete / move handlers, the drag preview (generateColumnOrder),     *)
(*     header and body cell rendering;                                     *)
(*   - OrganizationRateLimit (unnamed/part_000): the rate-limit step       *)
(*     table and the two slider labels.                                    *)
(* Strings are TLA+ strings; arrays are 1-based sequences, so the code's   *)
(* 0-based index k is position k + 1 of the sequence.                      *)
(***************************************************************************)
EXTENDS Integers, Sequences, FiniteSets, TLC

VARIABLES
    eventView,              \* props.eventView: the query-view descriptor
    location,               \* props.location
    draggable,              \* DraggableColumns state: draggingColumnIndex, destinationColumnIndex
    gridColumnOrder,        \* columnOrder prop handed to GridEditable by the last render()
    obtainedColumnOrder,    \* the list getColumns() gave that render's generateColumnOrder, as the call left it
    tracked,                \* trackAnalyticsEvent calls made by the last handler
    pushed,                 \* locations pushed to the browser history by the last handler
    handled,                \* the last event handler run: its name and index arguments
    tableData,              \* props.tableData
    cellColumn,             \* the column of the cell being rendered
    cellRow,                \* the data row of the cell being rendered
    headerCell,             \* what _renderGridHeaderCell returned for cellColumn
    bodyCell,               \* what _renderGridBodyCell returned for cellColumn and cellRow
    pc,                     \* OrganizationRateLimit module: where its loading is
    i,                      \* getRateLimitValues: i
    steps,                  \* getRateLimitValues: steps
    ACCOUNT_RATE_LIMIT_VALUES, \* the module's step table
    locale,                 \* the runtime's default locale
    quota,                  \* organization.quota
    formData,               \* the form's values: accountRateLimit, projectRateLimit
    labels                  \* the two labels formatLabel rendered last

tableVars ==
    <<eventView, location, draggable, gridColumnOrder, obtainedColumnOrder,
      tracked, pushed, handled>>

cellVars == <<tableData, cellColumn, cellRow, headerCell, bodyCell>>

rateVars == <<pc, i, steps, ACCOUNT_RATE_LIMIT_VALUES, locale, quota, formData, labels>>

vars == <<tableVars, cellVars, rateVars>>

(***************************************************************************)
(* Bounds of the model.                                                    *)
(***************************************************************************)
MaxCols == 3

(***************************************************************************)
(* Values.                                                                 *)
(***************************************************************************)
\* The absent value of an optional index (undefined | number).
undefined == -1

COL_WIDTH_UNDEFINED == -1

\* typeof x === 'number'
IsNumber(x) == x # undefined

Aggregations == {"", "count"}
FieldNames == {"", "id"}
\* Widths a resize can give a column.  A falsy width (undefined or 0) is 0.
ResizeWidths == {50}

organization == [id |-> "7", slug |-> "org"]

\* parseInt(s, 10) on the decimal strings of the model
parseInt(s) == CHOOSE n \in 0..9 : ToString(n) = s

(***************************************************************************)
(* utils: field strings.                                                   *)
(***************************************************************************)
generateFieldAsString(aggregation, field) ==
    IF aggregation # "" THEN aggregation \o "(" \o field \o ")" ELSE field

\* The substrings a field string of the model can be cut into.
AggregateNames == {"count", "count_unique", "avg"}
ArgumentNames == {"", "id", "title", "transaction.duration"}

\* AGGREGATE_PATTERN = /^([^\(]+)\((.*)\)$/ : the groups of a match, or none
AggregateMatch(fieldString) ==
    {m \in AggregateNames \X ArgumentNames :
        fieldString = m[1] \o "(" \o m[2] \o ")"}

explodeFieldString(fieldString) ==
    IF AggregateMatch(fieldString) # {}
    THEN LET m == CHOOSE m \in AggregateMatch(fieldString) : TRUE
         IN  [aggregation |-> m[1], field |-> m[2]]
    ELSE [aggregation |-> "", field |-> fieldString]

\* explodeField(field: Field): width falls back to COL_WIDTH_UNDEFINED when falsy
explodeField(f) ==
    LET results == explodeFieldString(f.field)
    IN  [aggregation |-> results.aggregation,
         field |-> results.field,
         width |-> IF f.width # 0 THEN f.width ELSE COL_WIDTH_UNDEFINED]

(***************************************************************************)
(* Array helpers (0-based indices, as in the code).                        *)
(***************************************************************************)
\* arr.splice(start, 1): the array left, and the removed element
SpliceOut(arr, start) ==
    [arr |-> SubSeq(arr, 1, start) \o SubSeq(arr, start + 2, Len(arr)),
     removed |-> arr[start + 1]]

\* arr.splice(start, 0, item); start beyond the end appends
SpliceIn(arr, start, item) ==
    LET at == IF start > Len(arr) THEN Len(arr) ELSE start
    IN  SubSeq(arr, 1, at) \o <<item>> \o SubSeq(arr, at + 1, Len(arr))

(***************************************************************************)
(* EventView (the descriptor): never changed in place; every with* method  *)
(* returns either the receiver itself or a new instance.  An instance is   *)
(* [fields], and the result of a with* method is [same, view]: same holds  *)
(* iff the method returned the receiver (reference identity).              *)
(***************************************************************************)
NewField(payload) ==
    [field |-> generateFieldAsString(payload.aggregation, payload.field),
     width |-> IF payload.width # 0 THEN payload.width ELSE COL_WIDTH_UNDEFINED]

withNewColumn(view, payload) ==
    [same |-> FALSE,
     view |-> [fields |-> Append(view.fields, NewField(payload))]]

withNewColumnAt(view, payload, insertAt) ==
    [same |-> FALSE,
     view |-> [fields |-> SpliceIn(view.fields, insertAt, NewField(payload))]]

withUpdatedColumn(view, columnIndex, payload) ==
    LET columnToBeUpdated == view.fields[columnIndex + 1]
        fieldAsString == generateFieldAsString(payload.aggregation, payload.field)
        updateField == columnToBeUpdated.field # fieldAsString
        updateWidth == columnToBeUpdated.width # payload.width
    IN  IF ~updateField /\ ~updateWidth
        THEN [same |-> TRUE, view |-> view]
        ELSE [same |-> FALSE,
              view |-> [fields |->
                  [view.fields EXCEPT ![columnIndex + 1] =
                      [field |-> fieldAsString, width |-> payload.width]]]]

withDeletedColumn(view, columnIndex) ==
    [same |-> FALSE,
     view |-> [fields |-> SpliceOut(view.fields, columnIndex).arr]]

withMovedColumn(view, fromIndex, toIndex) ==
    IF fromIndex = toIndex
    THEN [same |-> TRUE, view |-> view]
    ELSE LET cut == SpliceOut(view.fields, fromIndex)
         IN  [same |-> FALSE,
              view |-> [fields |-> SpliceIn(cut.arr, toIndex, cut.removed)]]

\* eventView.getColumns(): a fresh list of table columns, one per field
getColumns(view) ==
    [k \in 1..Len(view.fields) |->
        [key |-> view.fields[k].field,
         eventViewField |-> view.fields[k],
         isDragging |-> FALSE]]

\* nextEventView.generateQueryStringObject(): the descriptor's own query keys
generateQueryStringObject(view) == [field |-> view.fields]

(***************************************************************************)
(* Navigation.                                                             *)
(***************************************************************************)
\* Query keys that do not belong to the descriptor.
EXTERNAL_QUERY_STRING_KEYS == {"cursor"}
OtherQueryKeys == {"utm"}
ExternalValues == {"a"}

\* An external part of a query string: a function on some of the keys.
ExternalQueries ==
    UNION {[ks -> ExternalValues] :
        ks \in SUBSET (EXTERNAL_QUERY_STRING_KEYS \cup OtherQueryKeys)}

Pick(query, keys) == [k \in (DOMAIN query) \cap keys |-> query[k]]

pickRelevantLocationQueryStrings(loc) ==
    Pick(loc.query.external, EXTERNAL_QUERY_STRING_KEYS)

\* pushEventViewToLocation({location, nextEventView, extraQuery}): the
\* location it pushes to the browser history, {...location, query:
\* {...extraQuery, ...queryStringObject}}
pushEventViewToLocation(loc, nextEventView, extraQuery) ==
    [pathname |-> loc.pathname,
     query |-> [external |-> extraQuery,
                view |-> generateQueryStringObject(nextEventView)]]

\* EventView.fromLocation(location): the descriptor the page derives from a location
fromLocation(loc) == [fields |-> loc.query.view.field]

(***************************************************************************)
(* TableView handlers.  A handler is given the props and its arguments and *)
(* yields the calls it makes on its collaborators:                         *)
(* [tracked: the events given to trackAnalyticsEvent, pushed: the          *)
(* locations pushEventViewToLocation pushed], each in call order.          *)
(***************************************************************************)
NoCalls == [tracked |-> <<>>, pushed |-> <<>>]

_createColumn(props, nextColumn, insertAt) ==
    LET payload == [aggregation |-> nextColumn.aggregation,
                    field |-> nextColumn.field,
                    fieldname |-> nextColumn.name,
                    width |-> COL_WIDTH_UNDEFINED]
        nextEventView ==
            IF IsNumber(insertAt)
            THEN withNewColumnAt(props.eventView, payload, insertAt).view
            ELSE withNewColumn(props.eventView, payload).view
        event ==
            IF IsNumber(insertAt)
            THEN [eventKey |-> "discover_v2.add_column",
                  insert_at_index |-> insertAt,
                  organization_id |-> parseInt(props.organization.id),
                  aggregation |-> payload.aggregation,
                  field |-> payload.field,
                  fieldname |-> payload.fieldname,
                  width |-> payload.width]
            ELSE [eventKey |-> "discover_v2.add_column.right_end",
                  organization_id |-> parseInt(props.organization.id),
                  aggregation |-> payload.aggregation,
                  field |-> payload.field,
                  fieldname |-> payload.fieldname,
                  width |-> payload.width]
    IN  [tracked |-> <<event>>,
         pushed |-> <<pushEventViewToLocation(props.location, nextEventView,
                               pickRelevantLocationQueryStrings(props.location))>>]

\* Mutant: the three comparisons chained by else, so one change at most is listed.
Changed_elseIf(prevField, nextField) ==
    IF prevField.aggregation # nextField.aggregation THEN <<"aggregate">>
    ELSE IF prevField.field # nextField.field THEN <<"field">>
    ELSE IF prevField.width # nextField.width THEN <<"width">>
    ELSE <<>>

\* The changed list of the update telemetry, from the two exploded fields.
Changed(prevField, nextField) ==
    (IF prevField.aggregation # nextField.aggregation THEN <<"aggregate">> ELSE <<>>)
    \o (IF prevField.field # nextField.field THEN <<"field">> ELSE <<>>)
    \o (IF prevField.width # nextField.width THEN <<"width">> ELSE <<>>)

_updateColumn(props, columnIndex, nextColumn) ==
    LET payload == [aggregation |-> nextColumn.aggregation,
                    field |-> nextColumn.field,
                    width |-> IF nextColumn.width # 0
                              THEN nextColumn.width ELSE COL_WIDTH_UNDEFINED]
        next == withUpdatedColumn(props.eventView, columnIndex, payload)
        nextEventView == next.view
        prevField == explodeField(props.eventView.fields[columnIndex + 1])
        nextField == explodeField(nextEventView.fields[columnIndex + 1])
        event == [eventKey |-> "discover_v2.update_column",
                  updated_at_index |-> columnIndex,
                  changed |-> Changed(prevField, nextField),
                  organization_id |-> parseInt(props.organization.id),
                  aggregation |-> payload.aggregation,
                  field |-> payload.field,
                  width |-> payload.width]
    IN  [tracked |-> IF ~next.same THEN <<event>> ELSE <<>>,
         pushed |-> <<pushEventViewToLocation(props.location, nextEventView,
                               pickRelevantLocationQueryStrings(props.location))>>]

\* Mutant: the descriptor is pushed without the picked query strings.
_deleteColumn_noExtraQuery(props, columnIndex) ==
    LET prevField == explodeField(props.eventView.fields[columnIndex + 1])
        nextEventView == withDeletedColumn(props.eventView, columnIndex).view
        event == [eventKey |-> "discover_v2.delete_column",
                  deleted_at_index |-> columnIndex,
                  organization_id |-> parseInt(props.organization.id),
                  aggregation |-> prevField.aggregation,
                  field |-> prevField.field]
    IN  [tracked |-> <<event>>,
         pushed |-> <<pushEventViewToLocation(props.location, nextEventView,
                               Pick(props.location.query.external, {}))>>]

_deleteColumn(props, columnIndex) ==
    LET prevField == explodeField(props.eventView.fields[columnIndex + 1])
        nextEventView == withDeletedColumn(props.eventView, columnIndex).view
        event == [eventKey |-> "discover_v2.delete_column",
                  deleted_at_index |-> columnIndex,
                  organization_id |-> parseInt(props.organization.id),
                  aggregation |-> prevField.aggregation,
                  field |-> prevField.field]
    IN  [tracked |-> <<event>>,
         pushed |-> <<pushEventViewToLocation(props.location, nextEventView,
                               pickRelevantLocationQueryStrings(props.location))>>]

\* Mutant: the telemetry's column is read after the move.
_moveColumnCommit_readAfter(props, fromIndex, toIndex) ==
    LET nextEventView == withMovedColumn(props.eventView, fromIndex, toIndex).view
        prevField == explodeField(nextEventView.fields[fromIndex + 1])
        event == [eventKey |-> "discover_v2.move_column",
                  from_index |-> fromIndex,
                  to_index |-> toIndex,
                  organization_id |-> parseInt(props.organization.id),
                  aggregation |-> prevField.aggregation,
                  field |-> prevField.field]
    IN  [tracked |-> <<event>>,
         pushed |-> <<pushEventViewToLocation(props.location, nextEventView,
                               pickRelevantLocationQueryStrings(props.location))>>]

_moveColumnCommit(props, fromIndex, toIndex) ==
    LET prevField == explodeField(props.eventView.fields[fromIndex + 1])
        nextEventView == withMovedColumn(props.eventView, fromIndex, toIndex).view
        event == [eventKey |-> "discover_v2.move_column",
                  from_index |-> fromIndex,
                  to_index |-> toIndex,
                  organization_id |-> parseInt(props.organization.id),
                  aggregation |-> prevField.aggregation,
                  field |-> prevField.field]
    IN  [tracked |-> <<event>>,
         pushed |-> <<pushEventViewToLocation(props.location, nextEventView,
                               pickRelevantLocationQueryStrings(props.location))>>]

onToggleEdit(props, isEditing) ==
    LET event ==
            IF isEditing
            THEN [eventKey |-> "discover_v2.table.column_header.edit_mode.enter",
                  organization_id |-> parseInt(props.organization.id)]
            ELSE [eventKey |-> "discover_v2.table.column_header.edit_mode.exit",
                  organization_id |-> parseInt(props.organization.id)]
    IN  [tracked |-> <<event>>, pushed |-> <<>>]

\* Mutant: a drag that ends where it began is committed too.
onDragDone_sameIndex(props, dragging, destination) ==
    IF IsNumber(dragging) /\ IsNumber(destination)
    THEN _moveColumnCommit(props, dragging, destination)
    ELSE NoCalls

\* render(): the onDragDone callback handed to DraggableColumns
onDragDone(props, dragging, destination) ==
    IF IsNumber(dragging) /\ IsNumber(destination) /\ dragging # destination
    THEN _moveColumnCommit(props, dragging, destination)
    ELSE NoCalls

(***************************************************************************)
(* generateColumnOrder: the preview order of a drag.  columnOrder is the   *)
(* list obtained from eventView.getColumns().  The result is               *)
(* [order: the list returned, columnOrder: that obtained list as the call  *)
(* leaves it].                                                             *)
(***************************************************************************)
\* The column at index flagged isDragging: {...order[index], isDragging: true}
\* assigned to order[index]
FlagDragging(order, index) ==
    [order EXCEPT ![index + 1] = [order[index + 1] EXCEPT !.isDragging = TRUE]]

\* Mutant: the two columns trade places.
Relocate_swap(columnOrder, initialColumnIndex, destinationColumnIndex) ==
    [columnOrder EXCEPT
        ![initialColumnIndex + 1] = columnOrder[destinationColumnIndex + 1],
        ![destinationColumnIndex + 1] = columnOrder[initialColumnIndex + 1]]

\* [...columnOrder] with the column at initialColumnIndex spliced out and
\* spliced back in at destinationColumnIndex
Relocate(columnOrder, initialColumnIndex, destinationColumnIndex) ==
    LET cut == SpliceOut(columnOrder, initialColumnIndex)
    IN  SpliceIn(cut.arr, destinationColumnIndex, cut.removed)

\* Mutant: equal indices are taken for no drag at all.
generateColumnOrder_noSameFlag(columnOrder, initialColumnIndex, destinationColumnIndex) ==
    IF ~IsNumber(destinationColumnIndex) \/ ~IsNumber(initialColumnIndex)
       \/ destinationColumnIndex = initialColumnIndex
    THEN [order |-> columnOrder, columnOrder |-> columnOrder]
    ELSE [order |-> FlagDragging(Relocate(columnOrder, initialColumnIndex,
                                          destinationColumnIndex),
                                 destinationColumnIndex),
          columnOrder |-> columnOrder]

generateColumnOrder(columnOrder, initialColumnIndex, destinationColumnIndex) ==
    IF ~IsNumber(destinationColumnIndex) \/ ~IsNumber(initialColumnIndex)
    THEN [order |-> columnOrder, columnOrder |-> columnOrder]
    ELSE IF destinationColumnIndex = initialColumnIndex
    THEN \* the assignment is to the obtained list itself, which is returned
         LET assigned == FlagDragging(columnOrder, destinationColumnIndex)
         IN  [order |-> assigned, columnOrder |-> assigned]
    ELSE LET nextColumnOrder ==
                 Relocate(columnOrder, initialColumnIndex, destinationColumnIndex)
         IN  [order |-> FlagDragging(nextColumnOrder, destinationColumnIndex),
              columnOrder |-> columnOrder]

(***************************************************************************)
(* The table as a state machine.  An action is one event handler run to    *)
(* its end: the calls it makes, the props the navigation layer hands back  *)
(* after a push, and the render() that follows.                            *)
(***************************************************************************)
Props == [eventView |-> eventView, location |-> location, organization |-> organization]

NotDragging == [draggingColumnIndex |-> undefined, destinationColumnIndex |-> undefined]

\* render(): the columnOrder prop of GridEditable
RenderColumnOrder(view, drag) ==
    generateColumnOrder(getColumns(view),
                        drag.draggingColumnIndex,
                        drag.destinationColumnIndex).order

\* render(): the list generateColumnOrder got from eventView.getColumns(), as
\* it is when the call returns
RenderObtained(view, drag) ==
    generateColumnOrder(getColumns(view),
                        drag.draggingColumnIndex,
                        drag.destinationColumnIndex).columnOrder

\* The columns the edit form can submit: an aggregation, a field, or both,
\* and no width.
NextColumns ==
    {[aggregation |-> a, field |-> f, name |-> generateFieldAsString(a, f), width |-> 0] :
        a \in Aggregations, f \in FieldNames} \
    {[aggregation |-> "", field |-> "", name |-> "", width |-> 0]}

ColumnIndices == 0..(Len(eventView.fields) - 1)

\* The props after the handler's pushes: the last pushed location wins.
Handle(name, args, calls, drag) ==
    LET n == Len(calls.pushed)
        nextLocation == IF n = 0 THEN location ELSE calls.pushed[n]
        nextView == IF n = 0 THEN eventView ELSE fromLocation(nextLocation)
    IN  /\ tracked' = calls.tracked
        /\ pushed' = calls.pushed
        /\ handled' = [name |-> name, args |-> args]
        /\ eventView' = nextView
        /\ location' = nextLocation
        /\ draggable' = drag
        /\ gridColumnOrder' = RenderColumnOrder(nextView, drag)
        /\ obtainedColumnOrder' = RenderObtained(nextView, drag)
        /\ UNCHANGED <<cellVars, rateVars>>

\* No column is being dragged.  A drag holds the pointer from its start to its
\* end, so the other handlers run between drags.
IsIdle == draggable = NotDragging

CreateColumn ==
    /\ IsIdle
    /\ Len(eventView.fields) < MaxCols
    /\ \E nextColumn \in NextColumns :
       \E insertAt \in {undefined} \cup 0..Len(eventView.fields) :
          Handle("_createColumn", <<insertAt>>,
                 _createColumn(Props, nextColumn, insertAt), draggable)

UpdateColumn ==
    /\ IsIdle
    /\ \E columnIndex \in ColumnIndices :
       \E nextColumn \in NextColumns :
          Handle("_updateColumn", <<columnIndex>>,
                 _updateColumn(Props, columnIndex, nextColumn), draggable)

\* GridEditable's onResizeColumn is _updateColumn: the column comes back
\* with its new width
ResizeColumn ==
    /\ IsIdle
    /\ \E columnIndex \in ColumnIndices :
       \E width \in ResizeWidths :
          LET exploded == explodeField(eventView.fields[columnIndex + 1])
              nextColumn == [aggregation |-> exploded.aggregation,
                             field |-> exploded.field,
                             name |-> eventView.fields[columnIndex + 1].field,
                             width |-> width]
          IN  Handle("_updateColumn", <<columnIndex>>,
                     _updateColumn(Props, columnIndex, nextColumn), draggable)

DeleteColumn ==
    /\ IsIdle
    /\ \E columnIndex \in ColumnIndices :
          Handle("_deleteColumn", <<columnIndex>>,
                 _deleteColumn(Props, columnIndex), draggable)

ToggleEdit ==
    /\ IsIdle
    /\ \E isEditing \in BOOLEAN :
          Handle("onToggleEdit", <<>>, onToggleEdit(Props, isEditing), draggable)

\* DraggableColumns: a drag starts on a column header
DragStart ==
    /\ IsIdle
    /\ \E initialColumnIndex \in ColumnIndices :
          Handle("onDragStart", <<initialColumnIndex>>, NoCalls,
                 [draggingColumnIndex |-> initialColumnIndex,
                  destinationColumnIndex |-> undefined])

\* DraggableColumns: the pointer moves over a column while dragging
DragMove ==
    /\ IsNumber(draggable.draggingColumnIndex)
    /\ \E destination \in ColumnIndices :
          Handle("onDragMove", <<destination>>, NoCalls,
                 [draggable EXCEPT !.destinationColumnIndex = destination])

\* DraggableColumns: the drag ends; onDragDone gets the session's indices
DragEnd ==
    /\ IsNumber(draggable.draggingColumnIndex)
    /\ Handle("onDragDone",
              <<draggable.draggingColumnIndex, draggable.destinationColumnIndex>>,
              onDragDone(Props, draggable.draggingColumnIndex,
                         draggable.destinationColumnIndex),
              NotDragging)

\* The rest of the page changes the query string's external part.
Navigate ==
    /\ IsIdle
    /\ \E external \in ExternalQueries :
          /\ external # location.query.external
          /\ location' = [location EXCEPT !.query.external = external]
          /\ handled' = [name |-> "navigate", args |-> <<>>]
          /\ tracked' = <<>>
          /\ pushed' = <<>>
          /\ gridColumnOrder' = RenderColumnOrder(eventView, draggable)
          /\ obtainedColumnOrder' = RenderObtained(eventView, draggable)
          /\ UNCHANGED <<eventView, draggable, cellVars, rateVars>>

\* The descriptors a page can open with; the last one was decoded from a
\* query string that gave its column no width.
InitialViews ==
    {[fields |-> <<[field |-> "id", width |-> COL_WIDTH_UNDEFINED],
                   [field |-> "count()", width |-> COL_WIDTH_UNDEFINED]>>],
     [fields |-> <<[field |-> "count(id)", width |-> COL_WIDTH_UNDEFINED]>>],
     [fields |-> <<[field |-> "id", width |-> 0]>>]}

\* The table mounted with a descriptor and the external query of its location.
TableInit(views, externals) ==
    /\ eventView \in views
    /\ \E external \in externals :
          location = [pathname |-> "/organizations/org/eventsv2/results/",
                      query |-> [external |-> external,
                                 view |-> generateQueryStringObject(eventView)]]
    /\ draggable = NotDragging
    /\ gridColumnOrder = RenderColumnOrder(eventView, NotDragging)
    /\ obtainedColumnOrder = RenderObtained(eventView, NotDragging)
    /\ tracked = <<>>
    /\ pushed = <<>>
    /\ handled = [name |-> "constructor", args |-> <<>>]

\* One mounted table, for the specifications that leave the table alone.
TableIdle ==
    TableInit({[fields |-> <<[field |-> "id", width |-> COL_WIDTH_UNDEFINED],
                            [field |-> "count()", width |-> COL_WIDTH_UNDEFINED]>>]},
              {Pick(<<>>, {})})

(***************************************************************************)
(* Cell rendering.                                                         *)
(***************************************************************************)
\* obj[key] of a JavaScript object: undefined when the key is missing
Lookup(obj, key) == IF key \in DOMAIN obj THEN obj[key] ELSE "undefined"

\* The first "." of an argument replaced by "_".
ReplaceDot(argument) ==
    IF argument = "transaction.duration" THEN "transaction_duration" ELSE argument

\* getAggregateAlias(field): "<aggregate>_<argument>" for an aggregate, its
\* first "." replaced and trailing "_" stripped; any other field as it is
getAggregateAlias(fieldString) ==
    IF AggregateMatch(fieldString) = {} THEN fieldString
    ELSE LET m == CHOOSE m \in AggregateMatch(fieldString) : TRUE
         IN  IF m[2] = "" THEN m[1] ELSE m[1] \o "_" \o ReplaceDot(m[2])

\* tableData && tableData.meta
HasMeta(data) == data.present /\ data.hasMeta

\* Mutant: the wildcard tag does not fall back to the metadata.
_renderGridHeaderCell_neverOnly(props, column) ==
    LET field == column.eventViewField
        alignedTypes == {"number", "duration", "integer"}
        maybeType ==
            IF HasMeta(props.tableData)
            THEN Lookup(props.tableData.meta, getAggregateAlias(field.field))
            ELSE "undefined"
        align ==
            IF column.type = "never" /\ (maybeType = "integer" \/ maybeType = "number")
            THEN "right"
            ELSE IF column.type \in alignedTypes THEN "right" ELSE "left"
    IN  [element |-> "SortLink",
         align |-> align,
         field |-> field,
         hasTableDataMeta |-> HasMeta(props.tableData)]

\* The SortLink element of a header cell, with the props it is given.
_renderGridHeaderCell(props, column) ==
    LET field == column.eventViewField
        alignedTypes == {"number", "duration", "integer"}
        maybeType ==
            IF HasMeta(props.tableData)
            THEN Lookup(props.tableData.meta, getAggregateAlias(field.field))
            ELSE "undefined"
        align ==
            IF (column.type = "never" \/ column.type = "*")
               /\ (maybeType = "integer" \/ maybeType = "number")
            THEN "right"
            ELSE IF column.type \in alignedTypes THEN "right" ELSE "left"
    IN  [element |-> "SortLink",
         align |-> align,
         field |-> field,
         hasTableDataMeta |-> HasMeta(props.tableData)]

\* getFieldRenderer(key, meta)(dataRow, ...): the row's value under the
\* column's alias, formatted for the alias's type (string when it has none)
RenderField(key, meta, dataRow) ==
    LET fieldName == getAggregateAlias(key)
        fieldType == Lookup(meta, fieldName)
    IN  [formatter |-> IF fieldType = "undefined" THEN "string" ELSE fieldType,
         value |-> Lookup(dataRow, fieldName)]

\* getExpandedResults(eventView, {}, dataRow).generateQueryStringObject():
\* the drill-down query of a row
ExpandedQuery(view, dataRow) ==
    [field |-> view.fields, conditions |-> dataRow]

\* Mutant: every aggregate is expandable.
ExpandAggregateRow_anyAggregate(view, column, dataRow, loc, expanded, plain) ==
    LET exploded == explodeField(column.eventViewField)
    IN  IF exploded.aggregation # ""
        THEN [element |-> "BaseLink",
              to |-> [pathname |-> loc.pathname, query |-> ExpandedQuery(view, dataRow)],
              children |-> expanded]
        ELSE [element |-> "Fragment",
              to |-> [pathname |-> "", query |-> ExpandedQuery(view, dataRow)],
              children |-> plain]

\* ExpandAggregateRow: expanded is children({willExpand: true}), plain is
\* children({willExpand: false}).  A Fragment has no target (to.pathname "").
ExpandAggregateRow(view, column, dataRow, loc, expanded, plain) ==
    LET exploded == explodeField(column.eventViewField)
    IN  IF exploded.aggregation = "count"
        THEN [element |-> "BaseLink",
              to |-> [pathname |-> loc.pathname, query |-> ExpandedQuery(view, dataRow)],
              children |-> expanded]
        ELSE [element |-> "Fragment",
              to |-> [pathname |-> "", query |-> ExpandedQuery(view, dataRow)],
              children |-> plain]

\* A body cell: the raw value (element "raw"), or what ExpandAggregateRow renders.
_renderGridBodyCell(props, column, dataRow) ==
    IF ~props.tableData.present \/ ~props.tableData.hasMeta
    THEN [element |-> "raw",
          to |-> [pathname |-> "", query |-> ExpandedQuery(props.eventView, dataRow)],
          children |-> [formatter |-> "none", value |-> Lookup(dataRow, column.key)]]
    ELSE ExpandAggregateRow(props.eventView, column, dataRow, props.location,
             RenderField(column.key, props.tableData.meta, dataRow),
             RenderField(column.key, props.tableData.meta, dataRow))

ColumnValueTypes ==
    {"*", "string", "integer", "number", "duration", "timestamp", "boolean", "never"}

CellFields == {"id", "count(id)", "count_unique(id)", "avg(transaction.duration)"}

CellColumns ==
    {[key |-> f, type |-> ty,
      eventViewField |-> [field |-> f, width |-> COL_WIDTH_UNDEFINED],
      isDragging |-> FALSE] : f \in CellFields, ty \in ColumnValueTypes}

MetaTypes == {"integer", "number", "string", "duration"}

\* Result metadata: the type of no alias, or of one.
Metas ==
    {Pick(<<>>, {})} \cup
    {[a \in {getAggregateAlias(f)} |-> ty] : f \in CellFields, ty \in MetaTypes}

\* props.tableData: null, without meta, or with meta
TableDatas ==
    {[present |-> FALSE, hasMeta |-> FALSE, meta |-> Pick(<<>>, {})],
     [present |-> TRUE, hasMeta |-> FALSE, meta |-> Pick(<<>>, {})]}
    \cup {[present |-> TRUE, hasMeta |-> TRUE, meta |-> m] : m \in Metas}

\* Rows of the result: a value under each column's alias.
Rows == {[a \in {getAggregateAlias(f) : f \in CellFields} |-> v] : v \in {"5", "9"}}

NotRendered == [element |-> "none"]

CellProps ==
    [eventView |-> eventView, location |-> location,
     organization |-> organization, tableData |-> tableData]

CellIdle ==
    /\ tableData = [present |-> FALSE, hasMeta |-> FALSE, meta |-> Pick(<<>>, {})]
    /\ cellColumn = CHOOSE c \in CellColumns : c.key = "id" /\ c.type = "string"
    /\ cellRow = CHOOSE r \in Rows : r["id"] = "5"
    /\ headerCell = NotRendered
    /\ bodyCell = NotRendered

CellInit ==
    /\ tableData \in TableDatas
    /\ cellColumn \in CellColumns
    /\ cellRow \in Rows
    /\ headerCell = NotRendered
    /\ bodyCell = NotRendered

RenderHeaderCell ==
    /\ headerCell' = _renderGridHeaderCell(CellProps, cellColumn)
    /\ UNCHANGED <<tableData, cellColumn, cellRow, bodyCell, tableVars, rateVars>>

RenderBodyCell ==
    /\ bodyCell' = _renderGridBodyCell(CellProps, cellColumn, cellRow)
    /\ UNCHANGED <<tableData, cellColumn, cellRow, headerCell, tableVars, rateVars>>

(***************************************************************************)
(* OrganizationRateLimit.                                                  *)
(***************************************************************************)
\* Mutant: the first stride is kept up to and including 10000.
NextI_inclusive(n) ==
    IF n <= 10000 THEN n + 1000
    ELSE IF n < 100000 THEN n + 10000
    ELSE n + 100000

\* getRateLimitValues: the if / else if / else that advances i
NextI(n) ==
    IF n < 10000 THEN n + 1000
    ELSE IF n < 100000 THEN n + 10000
    ELSE n + 100000

\* getRateLimitValues: one turn of the while loop
LoopStep ==
    /\ pc = "getRateLimitValues"
    /\ i <= 1000000
    /\ steps' = Append(steps, i)
    /\ i' = NextI(i)
    /\ UNCHANGED <<pc, ACCOUNT_RATE_LIMIT_VALUES, locale, quota, formData, labels,
                   tableVars, cellVars>>

\* getRateLimitValues returns; the module keeps the result
LoopReturn ==
    /\ pc = "getRateLimitValues"
    /\ ~(i <= 1000000)
    /\ ACCOUNT_RATE_LIMIT_VALUES' = steps
    /\ pc' = "loaded"
    /\ UNCHANGED <<i, steps, locale, quota, formData, labels, tableVars, cellVars>>

\* t(), with no translation loaded
t(text) == text

EmDash == "[U+2014]"

RECURSIVE GroupDigits(_, _)
\* The decimal digits of n in groups of three
GroupDigits(n, separator) ==
    IF n < 1000 THEN ToString(n)
    ELSE LET r == n % 1000
             padded == IF r < 10 THEN "00" \o ToString(r)
                       ELSE IF r < 100 THEN "0" \o ToString(r)
                       ELSE ToString(r)
         IN  GroupDigits(n \div 1000, separator) \o separator \o padded

\* value.toLocaleString() in the runtime's locale
toLocaleString(value, loc) ==
    GroupDigits(value, IF loc = "de-DE" THEN "." ELSE ",")

\* !value
Falsy(value) == value = undefined \/ value = 0

\* A label: text, or the innerHTML of a span, in parts.
Text(string) == [html |-> FALSE, parts |-> <<string>>]

\* Mutant: only an absent account limit is no limit.
accountFormatLabel_absentOnly(value, loc) ==
    IF value = undefined
    THEN Text(t("No Limit"))
    ELSE Text(toLocaleString(value, loc) \o " per hour")

\* accountRateLimit's formatLabel
accountFormatLabel(value, loc) ==
    IF Falsy(value)
    THEN Text(t("No Limit"))
    ELSE Text(toLocaleString(value, loc) \o " per hour")

\* projectRateLimit's formatLabel
projectFormatLabel(value) ==
    IF value # 100
    THEN Text(ToString(value) \o "%")
    ELSE [html |-> TRUE, parts |-> <<t("No Limit"), " ", "&mdash;", " ", "100%">>]

RECURSIVE Concat(_)
Concat(parts) == IF parts = <<>> THEN "" ELSE Head(parts) \o Concat(Tail(parts))

\* What a label shows: innerHTML has its entities decoded.
Displayed(label) ==
    IF label.html
    THEN Concat([k \in 1..Len(label.parts) |->
                    IF label.parts[k] = "&mdash;" THEN EmDash ELSE label.parts[k]])
    ELSE Concat(label.parts)

RenderLabels(data, loc) ==
    [accountRateLimit |-> accountFormatLabel(data.accountRateLimit, loc),
     projectRateLimit |-> projectFormatLabel(data.projectRateLimit)]

\* render(): initialData from the quota, and the first labels
Mount ==
    /\ pc = "loaded"
    /\ LET initialData ==
               [projectRateLimit |-> IF Falsy(quota.projectLimit)
                                     THEN 100 ELSE quota.projectLimit,
                accountRateLimit |-> quota.accountLimit]
       IN  /\ formData' = initialData
           /\ labels' = RenderLabels(initialData, locale)
    /\ pc' = "mounted"
    /\ UNCHANGED <<i, steps, ACCOUNT_RATE_LIMIT_VALUES, locale, quota,
                   tableVars, cellVars>>

\* The account slider stops at one of allowedValues.
SlideAccount ==
    /\ pc = "mounted"
    /\ \E k \in 1..Len(ACCOUNT_RATE_LIMIT_VALUES) :
          /\ formData' = [formData EXCEPT
                             !.accountRateLimit = ACCOUNT_RATE_LIMIT_VALUES[k]]
          /\ labels' = RenderLabels(formData', locale)
    /\ UNCHANGED <<pc, i, steps, ACCOUNT_RATE_LIMIT_VALUES, locale, quota,
                   tableVars, cellVars>>

\* The project slider: min 50, max 100, step 5
ProjectValues == {50 + 5 * k : k \in 0..10}

SlideProject ==
    /\ pc = "mounted"
    /\ \E value \in ProjectValues :
          /\ formData' = [formData EXCEPT !.projectRateLimit = value]
          /\ labels' = RenderLabels(formData', locale)
    /\ UNCHANGED <<pc, i, steps, ACCOUNT_RATE_LIMIT_VALUES, locale, quota,
                   tableVars, cellVars>>

NoLabels == [accountRateLimit |-> Text(""), projectRateLimit |-> Text("")]

\* The module before it is loaded, with the quota of the organization.
RateInit(quotas, locales) ==
    /\ pc = "getRateLimitValues"
    /\ i = 0
    /\ steps = <<>>
    /\ ACCOUNT_RATE_LIMIT_VALUES = <<>>
    /\ locale \in locales
    /\ quota \in quotas
    /\ formData = [projectRateLimit |-> undefined, accountRateLimit |-> undefined]
    /\ labels = NoLabels

\* organization.quota: either limit may be absent
Quotas ==
    [projectLimit : {undefined, 0, 75, 100}, accountLimit : {undefined, 0, 500, 91000}]

RateIdle == RateInit({[projectLimit |-> undefined, accountLimit |-> undefined]}, {"en-US"})

(***************************************************************************)
(* Specifications.                                                         *)
(***************************************************************************)

\* The table with its columns added, edited in the form, deleted and dragged.
Init == TableInit(InitialViews, ExternalQueries) /\ CellIdle /\ RateIdle

Next ==
    \/ CreateColumn
    \/ UpdateColumn
    \/ DeleteColumn
    \/ ToggleEdit
    \/ DragStart
    \/ DragMove
    \/ DragEnd
    \/ Navigate

Spec == Init /\ [][Next]_vars

(***************************************************************************)
(* The table while its columns are edited and resized only: columns take   *)
(* widths here, and the location's external query stays empty.             *)
(***************************************************************************)
InitUpdate == TableInit(InitialViews, {Pick(<<>>, {})}) /\ CellIdle /\ RateIdle

NextUpdate ==
    \/ UpdateColumn
    \/ ResizeColumn
    \/ CreateColumn
    \/ DeleteColumn

SpecUpdate == InitUpdate /\ [][NextUpdate]_vars


(***************************************************************************)
(* The cells of one column and row, rendered from given props.             *)
(***************************************************************************)
InitCell == TableIdle /\ CellInit /\ RateIdle

NextCell ==
    \/ RenderHeaderCell
    \/ RenderBodyCell

SpecCell == InitCell /\ [][NextCell]_vars

(***************************************************************************)
(* The rate limit module, loaded and then rendered.  The loop is a         *)
(* sequential program: a step that can be taken is taken.                  *)
(***************************************************************************)
InitRate == TableIdle /\ CellIdle /\ RateInit(Quotas, {"en-US", "de-DE"})

NextRate ==
    \/ LoopStep
    \/ LoopReturn
    \/ Mount
    \/ SlideAccount
    \/ SlideProject

SpecRate == InitRate /\ [][NextRate]_vars /\ WF_vars(LoopStep) /\ WF_vars(LoopReturn)

(***************************************************************************)
(* Properties.                                                             *)
(***************************************************************************)
\* seq without its element at position at
RemoveAt(seq, at) ==
    [k \in 1..(Len(seq) - 1) |-> IF k < at THEN seq[k] ELSE seq[k + 1]]

Range(seq) == {seq[k] : k \in 1..Len(seq)}

InRange(index) == index \in ColumnIndices

DragSource == draggable.draggingColumnIndex
DragDestination == draggable.destinationColumnIndex

\* C1: during a drag from an in-range source index to a different in-range
\* destination index, the preview order has the base order's length, holds the
\* source column at the destination index, flags that column and no other as
\* dragging, and lists the other columns unflagged in their base order (so it
\* is a permutation of the base order).
C1_PreviewRelocates ==
    LET base == getColumns(eventView)
    IN  (InRange(DragSource) /\ InRange(DragDestination)
         /\ DragSource # DragDestination)
        => /\ Len(gridColumnOrder) = Len(base)
           /\ gridColumnOrder[DragDestination + 1].key = base[DragSource + 1].key
           /\ gridColumnOrder[DragDestination + 1].eventViewField
                 = base[DragSource + 1].eventViewField
           /\ \A k \in 1..Len(gridColumnOrder) :
                 gridColumnOrder[k].isDragging <=> (k = DragDestination + 1)
           /\ RemoveAt(gridColumnOrder, DragDestination + 1)
                 = RemoveAt(base, DragSource + 1)

\* A drag over three columns from the first to the last is previewed.
C1_Witness ==
    /\ Len(eventView.fields) = 3
    /\ DragSource = 0
    /\ DragDestination = 2
    /\ gridColumnOrder[3].isDragging
    /\ gridColumnOrder[1].key # gridColumnOrder[2].key

\* The last handler's telemetry holds a move event.
MoveTracked ==
    \E k \in 1..Len(tracked) : tracked[k].eventKey = "discover_v2.move_column"

\* The last handler was a drag completing with both indices present and different.
DragCompletedElsewhere ==
    /\ handled.name = "onDragDone"
    /\ IsNumber(handled.args[1])
    /\ IsNumber(handled.args[2])
    /\ handled.args[1] # handled.args[2]

\* C2: a move is committed (a location pushed and move telemetry sent) exactly
\* by a drag that completes with both indices present and different; drag
\* start, drag moves and a drag completing on its own index or with an absent
\* index push nothing and send no telemetry.
C2_CommitOnlyOnCompletedDrag ==
    /\ MoveTracked => DragCompletedElsewhere
    /\ DragCompletedElsewhere => (MoveTracked /\ Len(pushed) = 1)
    /\ (handled.name \in {"onDragStart", "onDragMove", "onDragDone"}
        /\ ~DragCompletedElsewhere)
       => (tracked = <<>> /\ pushed = <<>>)

\* A drag has completed on the index it began at, and nothing was committed.
C2_Witness ==
    /\ handled.name = "onDragDone"
    /\ IsNumber(handled.args[1])
    /\ handled.args[1] = handled.args[2]
    /\ tracked = <<>>
    /\ pushed = <<>>

\* fields with the element at index s put at index d (0-based), the others
\* keeping their order
Relocated(fields, s, d) ==
    [k \in 1..Len(fields) |->
        IF k = d + 1 THEN fields[s + 1]
        ELSE LET j == IF k < d + 1 THEN k ELSE k - 1
             IN  IF j < s + 1 THEN fields[j] ELSE fields[j + 1]]

Unflagged(order) == [k \in 1..Len(order) |-> [order[k] EXCEPT !.isDragging = FALSE]]

\* C3: when a drag from s to d, s # d, completes, one location is pushed whose
\* descriptor is the pre-move column order with the column at s put at d (the
\* last preview without its dragging flag), and exactly one move event is
\* sent, with from_index s, to_index d and the aggregation and field of the
\* column that was at s.
C3_CommitRelocatesAndTracks ==
    [][(/\ IsNumber(DragSource)
        /\ IsNumber(DragDestination)
        /\ DragSource # DragDestination
        /\ draggable' = NotDragging)
       => /\ Len(pushed') = 1
          /\ pushed'[1].query.view.field
                = Relocated(eventView.fields, DragSource, DragDestination)
          /\ eventView'.fields
                = Relocated(eventView.fields, DragSource, DragDestination)
          /\ getColumns(eventView') = Unflagged(gridColumnOrder)
          /\ Len(tracked') = 1
          /\ tracked'[1].eventKey = "discover_v2.move_column"
          /\ tracked'[1].from_index = DragSource
          /\ tracked'[1].to_index = DragDestination
          /\ generateFieldAsString(tracked'[1].aggregation, tracked'[1].field)
                = eventView.fields[DragSource + 1].field]_vars

\* The drag of "id" from index 0 to index 1 of ["id", "count()"] is committed.
C3_Witness ==
    /\ handled = [name |-> "onDragDone", args |-> <<0, 1>>]
    /\ Len(pushed) = 1
    /\ eventView.fields = <<[field |-> "count()", width |-> COL_WIDTH_UNDEFINED],
                            [field |-> "id", width |-> COL_WIDTH_UNDEFINED]>>
    /\ Len(tracked) = 1
    /\ tracked[1].from_index = 0
    /\ tracked[1].to_index = 1
    /\ tracked[1].aggregation = ""
    /\ tracked[1].field = "id"

\* C4: while the drag's destination index is its in-range source index, the
\* preview order is the base order, column for column, with the column at
\* that index flagged as dragging and no other column flagged.
C4_PreviewSameIndex ==
    LET base == getColumns(eventView)
    IN  (InRange(DragSource) /\ DragDestination = DragSource)
        => /\ Len(gridColumnOrder) = Len(base)
           /\ \A k \in 1..Len(base) :
                 /\ gridColumnOrder[k].key = base[k].key
                 /\ gridColumnOrder[k].eventViewField = base[k].eventViewField
                 /\ gridColumnOrder[k].isDragging <=> (k = DragSource + 1)

\* The middle one of three columns is dragged over itself.
C4_Witness ==
    /\ Len(eventView.fields) = 3
    /\ DragSource = 1
    /\ DragDestination = 1
    /\ gridColumnOrder[2].isDragging

\* C5: an update of column i that yields another descriptor sends exactly one
\* update event, whose changed list holds "aggregate" iff the exploded
\* aggregation of column i differs between the old and the new descriptor,
\* "field" iff the exploded field differs and "width" iff the exploded width
\* differs; an update that yields the same descriptor sends no event.
C5_UpdateTelemetryListsChanges ==
    [][(handled'.name = "_updateColumn")
       => LET at == handled'.args[1] + 1
              old == explodeField(eventView.fields[at])
              new == explodeField(eventView'.fields[at])
          IN  IF eventView' # eventView
              THEN /\ Len(tracked') = 1
                   /\ tracked'[1].eventKey = "discover_v2.update_column"
                   /\ tracked'[1].updated_at_index = handled'.args[1]
                   /\ ("aggregate" \in Range(tracked'[1].changed))
                         <=> (old.aggregation # new.aggregation)
                   /\ ("field" \in Range(tracked'[1].changed))
                         <=> (old.field # new.field)
                   /\ ("width" \in Range(tracked'[1].changed))
                         <=> (old.width # new.width)
                   /\ Len(tracked'[1].changed)
                         = Cardinality(Range(tracked'[1].changed))
              ELSE tracked' = <<>>]_vars

\* An update has changed a column's aggregation and width and kept its field.
C5_Witness ==
    /\ handled.name = "_updateColumn"
    /\ Len(tracked) = 1
    /\ tracked[1].changed = <<"aggregate", "width">>

\* The handlers that change the descriptor.
MutatingHandlers == {"_createColumn", "_updateColumn", "_deleteColumn"}

AliasOf(fieldString) ==
    CASE fieldString = "count(id)" -> "count_id"
      [] fieldString = "count_unique(id)" -> "count_unique_id"
      [] fieldString = "avg(transaction.duration)" -> "avg_transaction_duration"
      [] OTHER -> fieldString

\* The metadata's type for the cell column's alias; "undefined" without
\* table data, without metadata, or without that alias in the metadata.
ResolvedType ==
    IF tableData.present /\ tableData.hasMeta
    THEN Lookup(tableData.meta, AliasOf(cellColumn.eventViewField.field))
    ELSE "undefined"

\* C7: a header cell is aligned right if its column's type tag is number,
\* duration or integer; for the tags "never" and "*" it is aligned right iff
\* the metadata's type for the column's aggregate alias is "integer" or
\* "number"; in every other case it is aligned left.
C7_HeaderAlignment ==
    (headerCell.element # "none")
    => /\ headerCell.align \in {"left", "right"}
       /\ (cellColumn.type \in {"number", "duration", "integer"})
          => headerCell.align = "right"
       /\ (cellColumn.type \in {"never", "*"})
          => (headerCell.align = "right" <=> ResolvedType \in {"integer", "number"})
       /\ (cellColumn.type \notin {"number", "duration", "integer", "never", "*"})
          => headerCell.align = "left"

\* A wildcard column whose alias the metadata types as an integer is aligned right.
C7_Witness ==
    /\ headerCell.element = "SortLink"
    /\ cellColumn.type = "*"
    /\ cellColumn.key = "avg(transaction.duration)"
    /\ ResolvedType = "integer"
    /\ headerCell.align = "right"

\* The cell column's field is count(...) of some argument.
IsCountColumn ==
    \E argument \in ArgumentNames :
        cellColumn.eventViewField.field = "count(" \o argument \o ")"

\* C8: without result metadata a body cell is the row's raw value for the
\* column key, with no link; with metadata its content is what the field
\* renderer gives, wrapped in a link to the current path iff the column's
\* aggregation is exactly "count".
C8_BodyCell ==
    (bodyCell.element # "none")
    => IF ~(tableData.present /\ tableData.hasMeta)
       THEN /\ bodyCell.element = "raw"
            /\ bodyCell.children
                  = [formatter |-> "none", value |-> Lookup(cellRow, cellColumn.key)]
       ELSE /\ bodyCell.element \in {"BaseLink", "Fragment"}
            /\ bodyCell.element = "BaseLink" <=> IsCountColumn
            /\ bodyCell.element = "BaseLink" => bodyCell.to.pathname = location.pathname
            /\ bodyCell.children.value
                  = Lookup(cellRow, AliasOf(cellColumn.eventViewField.field))
            /\ bodyCell.children.formatter # "none"

\* With metadata, a cell of avg(transaction.duration) is rendered without a link.
C8_Witness ==
    /\ tableData.present
    /\ tableData.hasMeta
    /\ cellColumn.key = "avg(transaction.duration)"
    /\ bodyCell.element = "Fragment"
    /\ bodyCell.children.value = "5"

\* The values the step table is to hold.
ExpectedSteps ==
    {1000 * k : k \in 0..10} \cup {10000 * k : k \in 2..10}
    \cup {100000 * k : k \in 2..10}

\* C9: getRateLimitValues returns, and what it returns is strictly ascending,
\* starts with 0, ends with 1000000 and holds exactly the multiples of 1000
\* up to 10000, of 10000 from 20000 to 100000 and of 100000 from 200000 to
\* 1000000.
C9_StepTable ==
    /\ <>(pc # "getRateLimitValues")
    /\ [](pc # "getRateLimitValues"
          => /\ Range(ACCOUNT_RATE_LIMIT_VALUES) = ExpectedSteps
             /\ Len(ACCOUNT_RATE_LIMIT_VALUES) = Cardinality(ExpectedSteps)
             /\ \A k \in 1..(Len(ACCOUNT_RATE_LIMIT_VALUES) - 1) :
                   ACCOUNT_RATE_LIMIT_VALUES[k] < ACCOUNT_RATE_LIMIT_VALUES[k + 1]
             /\ ACCOUNT_RATE_LIMIT_VALUES[1] = 0
             /\ ACCOUNT_RATE_LIMIT_VALUES[Len(ACCOUNT_RATE_LIMIT_VALUES)] = 1000000)

\* The loop has returned a table whose stride changes after 10000 and 100000.
C9_Witness ==
    /\ pc = "loaded"
    /\ Len(ACCOUNT_RATE_LIMIT_VALUES) = 29
    /\ ACCOUNT_RATE_LIMIT_VALUES[11] = 10000
    /\ ACCOUNT_RATE_LIMIT_VALUES[12] = 20000
    /\ ACCOUNT_RATE_LIMIT_VALUES[20] = 100000
    /\ ACCOUNT_RATE_LIMIT_VALUES[21] = 200000

\* C10: the account label shows "No Limit" iff the account limit is absent or
\* zero, and else "<N> per hour", N being the limit's digits in groups of
\* three; the project label shows "No Limit - 100%" (with an em dash) iff the
\* project limit is 100, and else "<N>%".
C10_Labels ==
    (pc = "mounted")
    => LET account == formData.accountRateLimit
           project == formData.projectRateLimit
           separator == IF locale = "de-DE" THEN "." ELSE ","
       IN  /\ (Displayed(labels.accountRateLimit) = "No Limit")
                 <=> (account = undefined \/ account = 0)
           /\ (account > 0 /\ account < 1000)
                 => Displayed(labels.accountRateLimit)
                       = ToString(account) \o " per hour"
           /\ (account >= 1000 /\ account < 1000000 /\ account % 1000 = 0)
                 => Displayed(labels.accountRateLimit)
                       = ToString(account \div 1000) \o separator \o "000 per hour"
           /\ (account = 1000000)
                 => Displayed(labels.accountRateLimit)
                       = "1" \o separator \o "000" \o separator \o "000 per hour"
           /\ (Displayed(labels.projectRateLimit) = "No Limit " \o EmDash \o " 100%")
                 <=> (project = 100)
           /\ (project # 100)
                 => Displayed(labels.projectRateLimit) = ToString(project) \o "%"

\* The sliders stand at 1000000 and at 75.
C10_Witness ==
    /\ pc = "mounted"
    /\ locale = "en-US"
    /\ formData.accountRateLimit = 1000000
    /\ Displayed(labels.accountRateLimit) = "1,000,000 per hour"
    /\ formData.projectRateLimit = 75
    /\ Displayed(labels.projectRateLimit) = "75%"

\* The list generateColumnOrder obtained is, when the call returns, what
\* getColumns() gave it: the same columns in the same order, none flagged.
ObtainedListUnmodified ==
    /\ obtainedColumnOrder = getColumns(eventView)
    /\ \A k \in 1..Len(obtainedColumnOrder) : ~obtainedColumnOrder[k].isDragging

\* The descriptor's column order carries no dragging flag.
DescriptorNeverFlagged ==
    \A k \in 1..Len(getColumns(eventView)) : ~getColumns(eventView)[k].isDragging

\* A preview computed with an absent index is the base order, nothing flagged.
AbsentIndexPreviewIsBase ==
    (~IsNumber(DragSource) \/ ~IsNumber(DragDestination))
        => /\ gridColumnOrder = getColumns(eventView)
           /\ \A k \in 1..Len(gridColumnOrder) : ~gridColumnOrder[k].isDragging

\* C11: for every pair of drag indices (each absent or present, equal or
\* different) generateColumnOrder leaves the list it obtained from the
\* descriptor unmodified (same columns, same order, none flagged isDragging),
\* the dragging flag never reaches the descriptor's column order, and a
\* preview with an absent index is the base order with no column flagged.
C11_PreviewLeavesBaseUnmodified ==
    /\ ObtainedListUnmodified
    /\ DescriptorNeverFlagged
    /\ AbsentIndexPreviewIsBase

====
